---- MODULE Spec2Model ----
(***************************************************************************)
(* Settings store of Synapse (src-tauri/src/settings) and the command      *)
(* handlers that call it (src-tauri/src/commands.rs, commands/settings.rs).*)
(*                                                                         *)
(* Strings are sequences of atoms ("CommandOrControl", "+", "T", ...), so  *)
(* that str::contains is a contiguous-subsequence test.  The settings file *)
(* is a sequence of lines of pretty-printed JSON, one line per scalar      *)
(* field; nested objects contribute a header line.  Temperatures (f32) are *)
(* counted in hundredths.  A crash is a crash of the process: the page     *)
(* cache survives, so what was written or renamed stays so.                *)
(***************************************************************************)
EXTENDS Integers, Sequences, FiniteSets, TLC

(* ---------------------------- bounds ----------------------------------- *)
NProcs == 3
MaxCalls == 3
MaxCrashes == 1
MaxFaults == 1
ShortWrite == 5

Procs == 1..NProcs

(* ---------------------------- data model ------------------------------- *)
Theme == {"Light", "Dark", "System"}
StartupBehavior == {"Normal", "Minimized", "Hidden"}

NoConfig == [some |-> FALSE, model |-> <<>>, temperature |-> 0, max_tokens |-> 0]
SomeConfig(m, t, k) == [some |-> TRUE, model |-> m, temperature |-> t, max_tokens |-> k]

KeyboardShortcuts_default ==
    [toggle_window |-> <<"CommandOrControl", "+", "Shift", "+", "Space">>,
     clear_conversation |-> <<"CommandOrControl", "+", "L">>,
     new_conversation |-> <<"CommandOrControl", "+", "N">>,
     custom_shortcuts |-> {[k |-> "settings", v |-> <<"CommandOrControl", "+", ",">>]}]

AppPreferences_default_wrong ==
    [window_width |-> 1024,
     window_height |-> 600,
     theme |-> "System",
     startup_behavior |-> "Normal",
     keyboard_shortcuts |-> KeyboardShortcuts_default]

AppPreferences_default ==
    [window_width |-> 800,
     window_height |-> 600,
     theme |-> "System",
     startup_behavior |-> "Normal",
     keyboard_shortcuts |-> KeyboardShortcuts_default]

AIProviderSettings_default == [openai |-> NoConfig, anthropic |-> NoConfig]

Settings_default ==
    [preferences |-> AppPreferences_default,
     ai_providers |-> AIProviderSettings_default]

(* ---------------------------- validation ------------------------------- *)
Contains(hay, needle) ==
    \E i \in 1..(Len(hay) - Len(needle) + 1) :
        SubSeq(hay, i, i + Len(needle) - 1) = needle

VOk == [rule |-> "ok", detail |-> <<>>]
VErr(r, d) == [rule |-> r, detail |-> d]

validate_shortcut(shortcut) ==
    IF ~Contains(shortcut, <<"CommandOrControl">>) /\ ~Contains(shortcut, <<"Alt">>)
    THEN VErr("shortcut", shortcut)
    ELSE VOk

\* every enumeration of a finite set: the iteration orders of a HashMap
Orders(S) ==
    {f \in [1..Cardinality(S) -> S] :
        \A i, j \in 1..Cardinality(S) : i # j => f[i] # f[j]}

RECURSIVE FirstErr(_)
FirstErr(rs) ==
    IF rs = <<>> THEN VOk
    ELSE IF Head(rs).rule # "ok" THEN Head(rs)
    ELSE FirstErr(Tail(rs))

validate_KeyboardShortcuts_fixed_only(ks, order) ==
    FirstErr(<<validate_shortcut(ks.toggle_window),
               validate_shortcut(ks.clear_conversation),
               validate_shortcut(ks.new_conversation)>>)

\* order: the iteration order of custom_shortcuts
validate_KeyboardShortcuts(ks, order) ==
    FirstErr(<<validate_shortcut(ks.toggle_window),
               validate_shortcut(ks.clear_conversation),
               validate_shortcut(ks.new_conversation)>>
             \o [i \in 1..Len(order) |-> validate_shortcut(order[i].v)])

validate_AppPreferences(p, order) ==
    IF p.window_width < 400 THEN VErr("window_width", <<>>)
    ELSE IF p.window_height < 300 THEN VErr("window_height", <<>>)
    ELSE validate_KeyboardShortcuts(p.keyboard_shortcuts, order)

validate_AIProviderSettings_exclusive(a) ==
    IF a.openai.some /\ (a.openai.temperature <= 0 \/ a.openai.temperature >= 100)
    THEN VErr("openai_temperature", <<>>)
    ELSE IF a.anthropic.some
            /\ (a.anthropic.temperature <= 0 \/ a.anthropic.temperature >= 100)
    THEN VErr("anthropic_temperature", <<>>)
    ELSE VOk

validate_AIProviderSettings(a) ==
    IF a.openai.some /\ (a.openai.temperature < 0 \/ a.openai.temperature > 100)
    THEN VErr("openai_temperature", <<>>)
    ELSE IF a.anthropic.some
            /\ (a.anthropic.temperature < 0 \/ a.anthropic.temperature > 100)
    THEN VErr("anthropic_temperature", <<>>)
    ELSE VOk

validate_Settings_providers_first(s, order) ==
    FirstErr(<<validate_AIProviderSettings(s.ai_providers),
               validate_AppPreferences(s.preferences, order)>>)

\* self.preferences.validate()?; self.ai_providers.validate()?
validate_Settings(s, order) ==
    FirstErr(<<validate_AppPreferences(s.preferences, order),
               validate_AIProviderSettings(s.ai_providers)>>)

\* the results validate can return for s, over the iteration orders
validate(s) ==
    {validate_Settings(s, order) :
        order \in Orders(s.preferences.keyboard_shortcuts.custom_shortcuts)}

(* ---------------------------- JSON text -------------------------------- *)
JNum(n) == [t |-> "num", n |-> n, s |-> <<>>]
JFloat(c) == [t |-> "float", n |-> c, s |-> <<>>]
JStr(s) == [t |-> "str", n |-> 0, s |-> s]
JNull == [t |-> "null", n |-> 0, s |-> <<>>]
JObj == [t |-> "obj", n |-> 0, s |-> <<>>]

Line(k, sub, v) == [key |-> k, sub |-> sub, val |-> v]
OpenLine == Line("{", "", JObj)
CloseLine == Line("}", "", JObj)
\* the zero bytes the file system puts where a write lands beyond the end
HoleLine == Line("\\0", "", JNull)

\* #[serde(rename_all = "lowercase")]
Lowercase(variant) ==
    CASE variant = "Light" -> "light"
      [] variant = "Dark" -> "dark"
      [] variant = "System" -> "system"
      [] variant = "Normal" -> "normal"
      [] variant = "Minimized" -> "minimized"
      [] variant = "Hidden" -> "hidden"

SerializeConfig(key, c) ==
    IF c.some
    THEN <<Line(key, "", JObj),
           Line(key, "model", JStr(c.model)),
           Line(key, "temperature", JFloat(c.temperature)),
           Line(key, "max_tokens", JNum(c.max_tokens))>>
    ELSE <<Line(key, "", JNull)>>

\* order: the iteration order of custom_shortcuts
Serialize(s, order) ==
    LET p == s.preferences
        ks == p.keyboard_shortcuts
    IN  <<OpenLine,
          Line("window_width", "", JNum(p.window_width)),
          Line("window_height", "", JNum(p.window_height)),
          Line("theme", "", JStr(<<Lowercase(p.theme)>>)),
          Line("startup_behavior", "", JStr(<<Lowercase(p.startup_behavior)>>)),
          Line("toggle_window", "", JStr(ks.toggle_window)),
          Line("clear_conversation", "", JStr(ks.clear_conversation)),
          Line("new_conversation", "", JStr(ks.new_conversation)),
          Line("custom_shortcuts", "", JObj)>>
        \o [i \in 1..Len(order) |-> Line("custom", order[i].k, JStr(order[i].v))]
        \o SerializeConfig("openai", s.ai_providers.openai)
        \o SerializeConfig("anthropic", s.ai_providers.anthropic)
        \o <<CloseLine>>

\* the texts to_string_pretty can produce for s
Serializations(s) ==
    {Serialize(s, order) :
        order \in Orders(s.preferences.keyboard_shortcuts.custom_shortcuts)}

(* ---------------------------- parsing ---------------------------------- *)
At(text, i) == IF i \in 1..Len(text) THEN text[i] ELSE HoleLine

IsField(l, k, sub, t) == l.key = k /\ l.sub = sub /\ l.val.t = t

\* every number of the model is below 2^31, so only the sign can be wrong for a u32
IsU32(l, k, sub) == IsField(l, k, sub, "num") /\ l.val.n >= 0

IsF32(l, k, sub) == IsField(l, k, sub, "float") \/ IsField(l, k, sub, "num")

F32Of_truncating(v) == IF v.t = "num" THEN 100 * v.n ELSE 100 * (v.n \div 100)

\* a JSON number read as f32, in hundredths
F32Of(v) == IF v.t = "num" THEN 100 * v.n ELSE v.n

IsVariant(l, k, variants) ==
    /\ IsField(l, k, "", "str")
    /\ \E v \in variants : l.val.s = <<Lowercase(v)>>

VariantOf(l, variants) == CHOOSE v \in variants : l.val.s = <<Lowercase(v)>>

\* number of custom_shortcuts entries that follow line 9
CustomCount(text) ==
    Cardinality({j \in 10..Len(text) :
                    \A i \in 10..j : IsField(text[i], "custom", text[i].sub, "str")})

\* lines taken by an Option<...Config> that starts at line o; 0: malformed
ConfigLen(text, key, o) ==
    IF IsField(At(text, o), key, "", "null") THEN 1
    ELSE IF /\ IsField(At(text, o), key, "", "obj")
            /\ IsField(At(text, o + 1), key, "model", "str")
            /\ IsF32(At(text, o + 2), key, "temperature")
            /\ IsU32(At(text, o + 3), key, "max_tokens")
         THEN 4
         ELSE 0

ConfigOf(text, o) ==
    IF At(text, o).val.t = "null" THEN NoConfig
    ELSE SomeConfig(text[o + 1].val.s, F32Of(text[o + 2].val), text[o + 3].val.n)

\* a later duplicate key of a JSON map replaces the earlier entry
CustomOf(text, k) ==
    {[k |-> text[i].sub, v |-> text[i].val.s] :
        i \in {j \in 10..(9 + k) :
                  \A h \in (j + 1)..(9 + k) : text[h].sub # text[j].sub}}

ParseOk(text) ==
    LET k == CustomCount(text)
        o == 10 + k
        a == o + ConfigLen(text, "openai", o)
    IN  /\ At(text, 1) = OpenLine
        /\ IsU32(At(text, 2), "window_width", "")
        /\ IsU32(At(text, 3), "window_height", "")
        /\ IsVariant(At(text, 4), "theme", Theme)
        /\ IsVariant(At(text, 5), "startup_behavior", StartupBehavior)
        /\ IsField(At(text, 6), "toggle_window", "", "str")
        /\ IsField(At(text, 7), "clear_conversation", "", "str")
        /\ IsField(At(text, 8), "new_conversation", "", "str")
        /\ IsField(At(text, 9), "custom_shortcuts", "", "obj")
        /\ ConfigLen(text, "openai", o) > 0
        /\ ConfigLen(text, "anthropic", a) > 0
        /\ At(text, a + ConfigLen(text, "anthropic", a)) = CloseLine
        /\ Len(text) = a + ConfigLen(text, "anthropic", a)

ParseValue(text) ==
    LET k == CustomCount(text)
        o == 10 + k
        a == o + ConfigLen(text, "openai", o)
    IN  [preferences |->
            [window_width |-> text[2].val.n,
             window_height |-> text[3].val.n,
             theme |-> VariantOf(text[4], Theme),
             startup_behavior |-> VariantOf(text[5], StartupBehavior),
             keyboard_shortcuts |->
                [toggle_window |-> text[6].val.s,
                 clear_conversation |-> text[7].val.s,
                 new_conversation |-> text[8].val.s,
                 custom_shortcuts |-> CustomOf(text, k)]],
         ai_providers |->
            [openai |-> ConfigOf(text, o),
             anthropic |-> ConfigOf(text, a)]]

(* ---------------------------- state ------------------------------------ *)
VARIABLES
    up,         \* the process runs and SettingsManager::new has returned Ok
    loadErr,    \* the error of the last SettingsManager::new, "none" if Ok
    mem,        \* SettingsManager.settings, the value behind the RwLock
    vault,      \* the secret store of the OS: account of service "synapse" -> password
    dir,        \* directory of the config dir: path -> inode, 0 if absent
    inode,      \* inode -> content, a sequence of lines
    readers,    \* tasks that hold a read guard of the RwLock
    queue,      \* tasks that wait for the RwLock, first in first out
    writer,     \* the task that holds the write guard of the RwLock, 0 if none
    pc,         \* where each task is
    arg,        \* the Settings each task was called with
    content,    \* save: the serialized text
    fd,         \* save: the inode of the open temp file, 0 if none
    off,        \* save: the lines written so far
    rv,         \* what the store returned to the task's command
    got,        \* what the task's get_settings returned
    out,        \* what comes with rv: the error's message, or the key of get_api_key
    calls,      \* commands invoked so far
    crashes,    \* crashes so far
    faults,     \* file system errors so far
    hist,       \* history: facts about the run since the last load
    solo,       \* history: no other update_settings ran during the task's call
    pre,        \* history: the settings file when the task's call began
    seen,       \* history: the settings file held the task's value since its replacement
    gotLast,    \* history: hist.lastOk when the task's get_settings read
    sres        \* history: what save returned to the task's update_settings

fsVars == <<dir, inode>>
lockVars == <<readers, queue, writer>>
taskVars == <<pc, arg, content, fd, off, rv, got, out>>
countVars == <<calls, crashes, faults>>
histVars == <<hist, solo, pre, seen, gotLast, sres>>
vars == <<up, loadErr, mem, vault, fsVars, lockVars, taskVars, countVars, histVars>>

SettingsPath == "settings.json"

temp_path_same(file_path) == file_path

\* file_path.with_extension("tmp")
temp_path(file_path) == "settings.tmp"

Paths == {SettingsPath, "settings.tmp"}
InodeIds == 1..(NProcs + 2)

Unset == [set |-> FALSE, v |-> Settings_default]
Set(s) == [set |-> TRUE, v |-> s]

Absent == [present |-> FALSE, text |-> <<>>]
FileOf(d, ino, path) ==
    IF d[path] = 0 THEN Absent ELSE [present |-> TRUE, text |-> ino[d[path]]]
Canon == FileOf(dir, inode, SettingsPath)

\* the allow-list of the command handlers
Providers == {"openai", "anthropic"}
\* the user names of keyring entries of service "synapse" the commands are called with
Accounts == Providers \cup {"azure"}
Passwords == {"sk-1", "sk-2"}
NoPassword == "<no entry>"

(* ---------------------------- inputs ----------------------------------- *)
WithWidth(s, w) == [s EXCEPT !.preferences.window_width = w]
WithOpenAI(s, c) == [s EXCEPT !.ai_providers.openai = c]

CandA == WithWidth(Settings_default, 1000)
CandB == WithOpenAI(Settings_default, SomeConfig(<<"gpt-4">>, 70, 1000))
CandBad == WithWidth(Settings_default, 399)
Candidates == {CandA, CandB, CandBad}

(* ---------------------------- file system ------------------------------ *)
Range(f) == {f[x] : x \in DOMAIN f}

Used(d, f) == (Range(d) \cup Range(f)) \ {0}

FreeInode(d, f) ==
    CHOOSE i \in InodeIds : i \notin Used(d, f) /\ \A j \in 1..(i - 1) : j \in Used(d, f)

\* an inode no path and no descriptor refers to is gone
Gc(d, f, ino) == [i \in InodeIds |-> IF i \in Used(d, f) THEN ino[i] ELSE <<>>]

Max(a, b) == IF a >= b THEN a ELSE b

\* write(2) of data at offset o: bytes beyond the end leave a hole of zeros
WriteAt(old, o, data) ==
    SubSeq(old, 1, IF o <= Len(old) THEN o ELSE Len(old))
    \o [i \in 1..Max(0, o - Len(old)) |-> HoleLine]
    \o data
    \o (IF o + Len(data) < Len(old) THEN SubSeq(old, o + Len(data) + 1, Len(old)) ELSE <<>>)

\* write_all: each write(2) takes all that is left, or ShortWrite lines of it
WriteSizes(left) == {left} \cup {n \in {ShortWrite} : n < left}

(* ---------------------------- Init ------------------------------------- *)
\* lastOk: the value of the last update_settings that returned Ok and ran alone, if no
\*   update_settings was invoked since; prevOk: the lastOk before that one;
\*   prevRead: a get_settings read while prevOk was the lastOk
\* loadedFrom: the lastOk when new() ran, if no update_settings was invoked since
\* bootAbsent: new() found no settings file; renamed, replaced: a save has renamed,
\*   an update_settings has replaced the value, since new()
\* failed: an update_settings has returned an error since new()
\* vcalls: calls of the keyring made so far; cred: the last credential command
NoCred == [n |-> 0, task |-> 0, op |-> "none", provider |-> "", handler |-> ""]
Hist0 == [lastOk |-> Unset, prevOk |-> Unset, read |-> FALSE, prevRead |-> FALSE,
          loadedFrom |-> Unset, bootAbsent |-> FALSE, renamed |-> FALSE,
          replaced |-> FALSE, failed |-> FALSE, vcalls |-> 0, cred |-> NoCred]

\* before the first run: no process, nothing in the secret store
InitProcess ==
    /\ up = FALSE
    /\ loadErr = "none"
    /\ mem = Settings_default
    /\ vault = [a \in Accounts |-> NoPassword]
    /\ readers = {}
    /\ queue = <<>>
    /\ writer = 0
    /\ pc = [p \in Procs |-> "idle"]
    /\ arg = [p \in Procs |-> Settings_default]
    /\ content = [p \in Procs |-> <<>>]
    /\ fd = [p \in Procs |-> 0]
    /\ off = [p \in Procs |-> 0]
    /\ rv = [p \in Procs |-> "none"]
    /\ got = [p \in Procs |-> Unset]
    /\ out = [p \in Procs |-> VOk]
    /\ calls = 0
    /\ crashes = 0
    /\ faults = 0
    /\ hist = Hist0
    /\ solo = [p \in Procs |-> FALSE]
    /\ pre = [p \in Procs |-> Absent]
    /\ seen = [p \in Procs |-> FALSE]
    /\ gotLast = [p \in Procs |-> Unset]
    /\ sres = [p \in Procs |-> "none"]

\* the config dir is empty
Init ==
    /\ InitProcess
    /\ dir = [p \in Paths |-> 0]
    /\ inode = [i \in InodeIds |-> <<>>]

(* ---------------------------- history ---------------------------------- *)
InUpdate(p) == pc[p] \in {"w_wait", "save", "s_wait", "s_open", "s_write", "s_rename"}
AfterReplace(p) == pc[p] \in {"save", "s_wait", "s_open", "s_write", "s_rename"}
InFileSteps(p) == pc[p] \in {"s_open", "s_write", "s_rename"}

IsSerializationOf(file, s) == file.present /\ file.text \in Serializations(s)

\* seen after a step that leaves the settings file as file
SeenNext(file) ==
    [q \in Procs |->
        IF AfterReplace(q) THEN seen[q] \/ IsSerializationOf(file, arg[q]) ELSE seen[q]]

(* ---------------------------- SettingsManager::new --------------------- *)
LoadedTasks ==
    /\ readers' = {}
    /\ queue' = <<>>
    /\ writer' = 0
    /\ pc' = [p \in Procs |-> "idle"]
    /\ arg' = [p \in Procs |-> Settings_default]
    /\ content' = [p \in Procs |-> <<>>]
    /\ off' = [p \in Procs |-> 0]
    /\ rv' = [p \in Procs |-> "none"]
    /\ got' = [p \in Procs |-> Unset]
    /\ out' = [p \in Procs |-> VOk]
    /\ solo' = [p \in Procs |-> FALSE]
    /\ pre' = [p \in Procs |-> Absent]
    /\ seen' = [p \in Procs |-> FALSE]
    /\ gotLast' = [p \in Procs |-> Unset]
    /\ sres' = [p \in Procs |-> "none"]

\* what new() makes of the settings file: Settings::default() if it is absent,
\* serde_json::from_str of its content otherwise
LoadResult_or_default(file) ==
    IF ~file.present THEN [ok |-> TRUE, value |-> Settings_default]
    ELSE IF ParseOk(file.text) THEN [ok |-> TRUE, value |-> ParseValue(file.text)]
    ELSE [ok |-> TRUE, value |-> Settings_default]

LoadResult(file) ==
    IF ~file.present THEN [ok |-> TRUE, value |-> Settings_default]
    ELSE IF ParseOk(file.text) THEN [ok |-> TRUE, value |-> ParseValue(file.text)]
    ELSE [ok |-> FALSE, value |-> Settings_default]

\* new() returns Ok
Load ==
    /\ ~up
    /\ LoadResult(Canon).ok
    /\ up' = TRUE
    /\ loadErr' = "none"
    /\ mem' = LoadResult(Canon).value
    /\ LoadedTasks
    /\ hist' = [hist EXCEPT !.loadedFrom = hist.lastOk, !.bootAbsent = ~Canon.present,
                            !.renamed = FALSE, !.replaced = FALSE, !.failed = FALSE]
    /\ UNCHANGED <<vault, fsVars, fd, countVars>>

\* new() returns Err(Json): the file does not parse
LoadJsonError ==
    /\ ~up
    /\ ~LoadResult(Canon).ok
    /\ loadErr' = "Json"
    /\ UNCHANGED <<up, mem, vault, fsVars, lockVars, taskVars, countVars, histVars>>

\* new() returns Err: no config dir, or create_dir_all or read_to_string fails
LoadFault(kind) ==
    /\ ~up
    /\ faults < MaxFaults
    /\ kind = "Io" \/ kind = "ConfigDirNotFound"
    /\ faults' = faults + 1
    /\ loadErr' = kind
    /\ UNCHANGED <<up, mem, vault, fsVars, lockVars, taskVars, calls, crashes, histVars>>

\* the process dies; the kernel closes its descriptors
Crash ==
    /\ up
    /\ crashes < MaxCrashes
    /\ crashes' = crashes + 1
    /\ up' = FALSE
    /\ fd' = [p \in Procs |-> 0]
    /\ inode' = Gc(dir, fd', inode)
    /\ UNCHANGED <<loadErr, mem, vault, dir, lockVars, pc, arg, content, off, rv, got,
                   out, calls, faults, histVars>>

(* ---------------------------- commands --------------------------------- *)
\* the tasks are slots for the commands in flight: a command takes the first free
\* one, and what the finished commands returned is forgotten
Free(p) == pc[p] \in {"idle", "done"}
FirstFree(p) == Free(p) /\ \A q \in 1..(p - 1) : ~Free(q)
Clr(f, d) == [q \in Procs |-> IF pc[q] = "done" THEN d ELSE f[q]]

Invoke(p) ==
    /\ up
    /\ FirstFree(p)
    /\ calls < MaxCalls
    /\ calls' = calls + 1

(* ---------------------------- update_settings -------------------------- *)
\* hist when an update_settings is invoked
Invoked ==
    [hist EXCEPT !.lastOk = Unset, !.loadedFrom = Unset, !.read = FALSE,
                 !.prevOk = IF hist.lastOk.set THEN hist.lastOk ELSE @,
                 !.prevRead = IF hist.lastOk.set THEN hist.read ELSE @]

guard_after_replace_kept(p) == p

\* the write guard is a temporary of the assignment statement: dropped at its end
guard_after_replace(p) == 0

Replace_merge(old, new) == [new EXCEPT !.ai_providers = old.ai_providers]

\* *self.settings.write().await = new_settings
Replace(old, new) == new

\* SettingsManager::update_settings is entered: the write lock is requested; if it
\* is free the value is replaced and the guard dropped at the end of the statement
EnterUpdate(p, s) ==
    /\ arg' = [Clr(arg, Settings_default) EXCEPT ![p] = s]
    /\ rv' = [Clr(rv, "none") EXCEPT ![p] = "none"]
    /\ got' = Clr(got, Unset)
    /\ out' = Clr(out, VOk)
    /\ gotLast' = Clr(gotLast, Unset)
    /\ sres' = Clr(sres, "none")
    /\ solo' = [q \in Procs |->
                  IF q = p THEN \A r \in Procs \ {p} : ~InUpdate(r)
                  ELSE IF InUpdate(q) THEN FALSE ELSE Clr(solo, FALSE)[q]]
    /\ pre' = [Clr(pre, Absent) EXCEPT ![p] = Canon]
    /\ IF queue = <<>> /\ readers = {} /\ writer = 0
       THEN /\ mem' = Replace(mem, s)
            /\ writer' = guard_after_replace(p)
            /\ pc' = [Clr(pc, "idle") EXCEPT ![p] = "save"]
            /\ queue' = queue
            /\ seen' = [Clr(seen, FALSE) EXCEPT ![p] = IsSerializationOf(Canon, s)]
            /\ hist' = [Invoked EXCEPT !.replaced = TRUE]
       ELSE /\ mem' = mem
            /\ writer' = writer
            /\ pc' = [Clr(pc, "idle") EXCEPT ![p] = "w_wait"]
            /\ queue' = Append(queue, p)
            /\ seen' = [Clr(seen, FALSE) EXCEPT ![p] = FALSE]
            /\ hist' = Invoked

\* validation failed with r: Err(CommandError::InvalidInput(r))
Rejected(p, s, r) ==
    /\ pc' = [Clr(pc, "idle") EXCEPT ![p] = "done"]
    /\ rv' = [Clr(rv, "none") EXCEPT ![p] = "InvalidInput"]
    /\ out' = [Clr(out, VOk) EXCEPT ![p] = r]
    /\ arg' = [Clr(arg, Settings_default) EXCEPT ![p] = s]
    /\ got' = Clr(got, Unset)
    /\ gotLast' = Clr(gotLast, Unset)
    /\ sres' = Clr(sres, "none")
    /\ solo' = Clr(solo, FALSE)
    /\ pre' = Clr(pre, Absent)
    /\ seen' = Clr(seen, FALSE)
    /\ UNCHANGED <<mem, queue, writer, hist>>

\* commands/settings.rs update_settings: validate, then the store
UpdateCommand(p, s) ==
    /\ Invoke(p)
    /\ \E r \in validate(s) : IF r # VOk THEN Rejected(p, s, r) ELSE EnterUpdate(p, s)
    /\ UNCHANGED <<up, loadErr, vault, fsVars, readers, content, fd, off, crashes, faults>>

\* commands.rs update_settings: the store, without validation
UpdateCommandOld(p, s) ==
    /\ Invoke(p)
    /\ EnterUpdate(p, s)
    /\ UNCHANGED <<up, loadErr, vault, fsVars, readers, content, fd, off, crashes, faults>>

\* the write lock is granted: replace, and drop the guard at the end of the statement
WriteGranted(p) ==
    /\ up
    /\ pc[p] = "w_wait"
    /\ queue # <<>> /\ Head(queue) = p
    /\ readers = {} /\ writer = 0
    /\ queue' = Tail(queue)
    /\ mem' = Replace(mem, arg[p])
    /\ writer' = guard_after_replace(p)
    /\ pc' = [pc EXCEPT ![p] = "save"]
    /\ seen' = [seen EXCEPT ![p] = IsSerializationOf(Canon, arg[p])]
    /\ hist' = [hist EXCEPT !.replaced = TRUE]
    /\ UNCHANGED <<up, loadErr, vault, fsVars, readers, arg, content, fd, off, rv, got,
                   out, countVars, solo, pre, gotLast, sres>>

(* ---------------------------- save ------------------------------------- *)
Serialized_own(p) ==
    /\ readers' = readers \cup {p}
    /\ \E text \in Serializations(arg[p]) : content' = [content EXCEPT ![p] = text]
    /\ pc' = [pc EXCEPT ![p] = "s_open"]

\* the read guard is taken and held to the return of save; to_string_pretty
Serialized(p) ==
    /\ readers' = readers \cup {p}
    /\ \E text \in Serializations(mem) : content' = [content EXCEPT ![p] = text]
    /\ pc' = [pc EXCEPT ![p] = "s_open"]

\* save asks for the read lock
SaveLock(p) ==
    /\ up
    /\ pc[p] = "save"
    /\ IF queue = <<>> /\ writer = 0
       THEN Serialized(p) /\ queue' = queue
       ELSE /\ queue' = Append(queue, p)
            /\ pc' = [pc EXCEPT ![p] = "s_wait"]
            /\ UNCHANGED <<readers, content>>
    /\ UNCHANGED <<up, loadErr, mem, vault, fsVars, writer, arg, fd, off, rv, got, out,
                   countVars, histVars>>

ReadGranted(p) ==
    /\ up
    /\ pc[p] = "s_wait"
    /\ queue # <<>> /\ Head(queue) = p
    /\ writer = 0
    /\ queue' = Tail(queue)
    /\ Serialized(p)
    /\ UNCHANGED <<up, loadErr, mem, vault, fsVars, writer, arg, fd, off, rv, got, out,
                   countVars, histVars>>

\* tokio::fs::write, first half: open(temp_path, O_CREAT | O_TRUNC)
SaveOpen(p) ==
    LET tmp == temp_path(SettingsPath)
        i == IF dir[tmp] = 0 THEN FreeInode(dir, fd) ELSE dir[tmp]
    IN  /\ up
        /\ pc[p] = "s_open"
        /\ dir' = [dir EXCEPT ![tmp] = i]
        /\ fd' = [fd EXCEPT ![p] = i]
        /\ inode' = [inode EXCEPT ![i] = <<>>]
        /\ off' = [off EXCEPT ![p] = 0]
        /\ pc' = [pc EXCEPT ![p] = "s_write"]
        /\ seen' = SeenNext(FileOf(dir', inode', SettingsPath))
        /\ UNCHANGED <<up, loadErr, mem, vault, lockVars, arg, content, rv, got, out,
                       countVars, hist, solo, pre, gotLast, sres>>

\* tokio::fs::write, second half: write_all, then the file is closed
SaveWrite(p) ==
    \E n \in WriteSizes(Len(content[p]) - off[p]) :
    LET end == off[p] + n
        done == end = Len(content[p])
    IN  /\ up
        /\ pc[p] = "s_write"
        /\ off' = [off EXCEPT ![p] = end]
        /\ fd' = [fd EXCEPT ![p] = IF done THEN 0 ELSE fd[p]]
        /\ inode' = Gc(dir, fd',
                       [inode EXCEPT ![fd[p]] =
                           WriteAt(inode[fd[p]], off[p], SubSeq(content[p], off[p] + 1, end))])
        /\ pc' = [pc EXCEPT ![p] = IF done THEN "s_rename" ELSE "s_write"]
        /\ seen' = SeenNext(FileOf(dir, inode', SettingsPath))
        /\ UNCHANGED <<up, loadErr, mem, vault, dir, lockVars, arg, content, rv, got, out,
                       countVars, hist, solo, pre, gotLast, sres>>

update_result_swallow(saved) == "Ok"

\* self.save().await?; Ok(())
update_result(saved) == saved

\* save returns: the read guard is dropped, update_settings returns what save returned
Returned(p, result) ==
    /\ readers' = readers \ {p}
    /\ pc' = [pc EXCEPT ![p] = "done"]
    /\ sres' = [sres EXCEPT ![p] = result]
    /\ rv' = [rv EXCEPT ![p] = update_result(result)]
    /\ content' = [content EXCEPT ![p] = <<>>]
    /\ off' = [off EXCEPT ![p] = 0]

\* tokio::fs::rename(temp_path, file_path): ENOENT if the temp file is gone
SaveRename(p) ==
    LET tmp == temp_path(SettingsPath)
    IN  /\ up
        /\ pc[p] = "s_rename"
        /\ IF dir[tmp] = 0
           THEN /\ Returned(p, "Io")
                /\ hist' = [hist EXCEPT !.failed = TRUE]
                /\ UNCHANGED <<fsVars, seen>>
           ELSE /\ dir' = [q \in Paths |-> IF q = SettingsPath THEN dir[tmp] ELSE 0]
                /\ inode' = Gc(dir', fd, inode)
                /\ Returned(p, "Ok")
                /\ seen' = SeenNext(FileOf(dir', inode', SettingsPath))
                /\ hist' = [hist EXCEPT !.renamed = TRUE,
                                        !.lastOk = IF solo[p] THEN Set(arg[p]) ELSE @]
        /\ UNCHANGED <<up, loadErr, mem, vault, queue, writer, arg, fd, got, out,
                       countVars, solo, pre, gotLast>>

\* open, write or rename fails with an io::Error and has no effect
SaveFault(p) ==
    /\ up
    /\ InFileSteps(p)
    /\ faults < MaxFaults
    /\ faults' = faults + 1
    /\ fd' = [fd EXCEPT ![p] = 0]
    /\ inode' = Gc(dir, fd', inode)
    /\ Returned(p, "Io")
    /\ hist' = [hist EXCEPT !.failed = TRUE]
    /\ UNCHANGED <<up, loadErr, mem, vault, dir, queue, writer, arg, got, out, calls,
                   crashes, solo, pre, seen, gotLast>>

(* ---------------------------- get_settings ----------------------------- *)
\* read guard, clone, guard dropped: one statement
Cloned(p, g, gl) ==
    /\ got' = [g EXCEPT ![p] = Set(mem)]
    /\ gotLast' = [gl EXCEPT ![p] = hist.lastOk]
    /\ hist' = [hist EXCEPT !.read = hist.lastOk.set]

\* commands get_settings (both handlers)
GetCommand(p) ==
    /\ Invoke(p)
    /\ arg' = Clr(arg, Settings_default)
    /\ sres' = Clr(sres, "none")
    /\ solo' = Clr(solo, FALSE)
    /\ pre' = Clr(pre, Absent)
    /\ seen' = Clr(seen, FALSE)
    /\ out' = Clr(out, VOk)
    /\ IF queue = <<>> /\ writer = 0
       THEN /\ Cloned(p, Clr(got, Unset), Clr(gotLast, Unset))
            /\ pc' = [Clr(pc, "idle") EXCEPT ![p] = "done"]
            /\ rv' = [Clr(rv, "none") EXCEPT ![p] = "OkSettings"]
            /\ queue' = queue
       ELSE /\ queue' = Append(queue, p)
            /\ pc' = [Clr(pc, "idle") EXCEPT ![p] = "g_wait"]
            /\ rv' = [Clr(rv, "none") EXCEPT ![p] = "none"]
            /\ got' = Clr(got, Unset)
            /\ gotLast' = Clr(gotLast, Unset)
            /\ hist' = hist
    /\ UNCHANGED <<up, loadErr, mem, vault, fsVars, readers, writer, content, fd, off,
                   crashes, faults>>

GetGranted(p) ==
    /\ up
    /\ pc[p] = "g_wait"
    /\ queue # <<>> /\ Head(queue) = p
    /\ writer = 0
    /\ queue' = Tail(queue)
    /\ Cloned(p, got, gotLast)
    /\ pc' = [pc EXCEPT ![p] = "done"]
    /\ rv' = [rv EXCEPT ![p] = "OkSettings"]
    /\ UNCHANGED <<up, loadErr, mem, vault, fsVars, readers, writer, arg, content, fd,
                   off, out, countVars, solo, pre, seen, sres>>

(* ---------------------------- credentials ------------------------------ *)
\* the keyring crate, on the entry of service "synapse" and user name provider;
\* broken: the secret store cannot be reached.  The result: the keyring::Error (or
\* "none"), the password read, the secret store afterwards.
KeyringResult(err, key, v) == [err |-> err, key |-> key, vault |-> v]

store_api_key(v, provider, key, broken) ==
    IF broken THEN KeyringResult("PlatformFailure", NoPassword, v)
    ELSE KeyringResult("none", NoPassword, [v EXCEPT ![provider] = key])

get_api_key(v, provider, broken) ==
    IF broken THEN KeyringResult("PlatformFailure", NoPassword, v)
    ELSE IF v[provider] = NoPassword THEN KeyringResult("NoEntry", NoPassword, v)
    ELSE KeyringResult("none", v[provider], v)

delete_api_key(v, provider, broken) ==
    IF broken THEN KeyringResult("PlatformFailure", NoPassword, v)
    ELSE IF v[provider] = NoPassword THEN KeyringResult("NoEntry", NoPassword, v)
    ELSE KeyringResult("none", NoPassword, [v EXCEPT ![provider] = NoPassword])

\* #[error("Keyring error: {0}")]
KeyringMessage(err) == VErr("Keyring error", <<err>>)

\* impl From<SettingsError> for CommandError
CommandError_from(err) == "Settings"

CredentialReturns_noted(p, kind, payload) ==
    /\ pc' = [Clr(pc, "idle") EXCEPT ![p] = "done"]
    /\ rv' = [Clr(rv, "none") EXCEPT ![p] = kind]
    /\ out' = [Clr(out, VOk) EXCEPT ![p] = payload]
    /\ arg' = Clr(arg, Settings_default)
    /\ got' = Clr(got, Unset)
    /\ gotLast' = Clr(gotLast, Unset)
    /\ sres' = Clr(sres, "none")
    /\ solo' = Clr(solo, FALSE)
    /\ pre' = Clr(pre, Absent)
    /\ seen' = Clr(seen, FALSE)
    /\ mem' = WithOpenAI(mem, SomeConfig(<<kind>>, 0, 0))
    /\ UNCHANGED <<up, loadErr, fsVars, lockVars, content, fd, off, crashes>>

\* a credential command returns kind with payload; it has no await that suspends
CredentialReturns(p, kind, payload) ==
    /\ pc' = [Clr(pc, "idle") EXCEPT ![p] = "done"]
    /\ rv' = [Clr(rv, "none") EXCEPT ![p] = kind]
    /\ out' = [Clr(out, VOk) EXCEPT ![p] = payload]
    /\ arg' = Clr(arg, Settings_default)
    /\ got' = Clr(got, Unset)
    /\ gotLast' = Clr(gotLast, Unset)
    /\ sres' = Clr(sres, "none")
    /\ solo' = Clr(solo, FALSE)
    /\ pre' = Clr(pre, Absent)
    /\ seen' = Clr(seen, FALSE)
    /\ UNCHANGED <<up, loadErr, mem, fsVars, lockVars, content, fd, off, crashes>>

\* the command calls the store, which calls the keyring; errKind: how the handler
\* wraps a SettingsError
CallsKeyring(p, op, provider, res, broken, handler, errKind) ==
    /\ broken => faults < MaxFaults
    /\ faults' = IF broken THEN faults + 1 ELSE faults
    /\ vault' = res.vault
    /\ hist' = [hist EXCEPT !.vcalls = @ + 1,
                            !.cred = [n |-> calls', task |-> p, op |-> op,
                                      provider |-> provider, handler |-> handler]]
    /\ IF res.err # "none" THEN CredentialReturns(p, errKind, KeyringMessage(res.err))
       ELSE IF op = "get" THEN CredentialReturns(p, "OkString", VErr("key", <<res.key>>))
       ELSE CredentialReturns(p, "OkUnit", VOk)

\* commands/settings.rs: Err(CommandError::InvalidInput("Invalid provider: ..."))
InvalidProvider(p, op, provider) ==
    /\ CredentialReturns(p, "InvalidInput", VErr("Invalid provider", <<provider>>))
    /\ hist' = [hist EXCEPT !.cred = [n |-> calls', task |-> p, op |-> op,
                                      provider |-> provider, handler |-> "commands/settings.rs"]]
    /\ UNCHANGED <<vault, faults>>

\* commands/settings.rs store_api_key
StoreKeyCommand(p, provider, key) ==
    /\ Invoke(p)
    /\ IF provider \notin Providers THEN InvalidProvider(p, "store", provider)
       ELSE \E broken \in BOOLEAN :
               CallsKeyring(p, "store", provider, store_api_key(vault, provider, key, broken),
                            broken, "commands/settings.rs", CommandError_from("Keyring"))

\* commands/settings.rs get_api_key
GetKeyCommand(p, provider) ==
    /\ Invoke(p)
    /\ IF provider \notin Providers THEN InvalidProvider(p, "get", provider)
       ELSE \E broken \in BOOLEAN :
               CallsKeyring(p, "get", provider, get_api_key(vault, provider, broken),
                            broken, "commands/settings.rs", CommandError_from("Keyring"))

\* commands/settings.rs delete_api_key
DeleteKeyCommand(p, provider) ==
    /\ Invoke(p)
    /\ IF provider \notin Providers THEN InvalidProvider(p, "delete", provider)
       ELSE \E broken \in BOOLEAN :
               CallsKeyring(p, "delete", provider, delete_api_key(vault, provider, broken),
                            broken, "commands/settings.rs", CommandError_from("Keyring"))

\* commands.rs store_api_key: the store, whatever the provider; Err(e.to_string())
StoreKeyCommandOld(p, provider, key) ==
    /\ Invoke(p)
    /\ \E broken \in BOOLEAN :
          CallsKeyring(p, "store", provider, store_api_key(vault, provider, key, broken),
                       broken, "commands.rs", "String")

\* commands.rs get_api_key
GetKeyCommandOld(p, provider) ==
    /\ Invoke(p)
    /\ \E broken \in BOOLEAN :
          CallsKeyring(p, "get", provider, get_api_key(vault, provider, broken),
                       broken, "commands.rs", "String")

\* commands.rs delete_api_key
DeleteKeyCommandOld(p, provider) ==
    /\ Invoke(p)
    /\ \E broken \in BOOLEAN :
          CallsKeyring(p, "delete", provider, delete_api_key(vault, provider, broken),
                       broken, "commands.rs", "String")

(* ---------------------------- specification ---------------------------- *)
Next ==
    \/ Load
    \/ LoadJsonError
    \/ \E kind \in {"Io", "ConfigDirNotFound"} : LoadFault(kind)
    \/ Crash
    \/ \E p \in Procs, s \in Candidates : UpdateCommand(p, s)
    \/ \E p \in Procs, s \in Candidates : UpdateCommandOld(p, s)
    \/ \E p \in Procs : WriteGranted(p)
    \/ \E p \in Procs : SaveLock(p)
    \/ \E p \in Procs : ReadGranted(p)
    \/ \E p \in Procs : SaveOpen(p)
    \/ \E p \in Procs : SaveWrite(p)
    \/ \E p \in Procs : SaveRename(p)
    \/ \E p \in Procs : SaveFault(p)
    \/ \E p \in Procs : GetCommand(p)
    \/ \E p \in Procs : GetGranted(p)

Spec == Init /\ [][Next]_vars

(* ---------------------------- one update_settings at a time ------------ *)
\* The callers wait for an update_settings to return before they invoke the next;
\* get_settings is invoked at any time.  No task ever waits for the lock, and new()
\* never finds a file that does not parse.
NoUpdateInFlight == \A q \in Procs : ~InUpdate(q)

NextSeq ==
    \/ Load
    \/ \E kind \in {"Io", "ConfigDirNotFound"} : LoadFault(kind)
    \/ Crash
    \/ \E p \in Procs, s \in Candidates : NoUpdateInFlight /\ UpdateCommand(p, s)
    \/ \E p \in Procs, s \in Candidates : NoUpdateInFlight /\ UpdateCommandOld(p, s)
    \/ \E p \in Procs : SaveLock(p)
    \/ \E p \in Procs : SaveOpen(p)
    \/ \E p \in Procs : SaveWrite(p)
    \/ \E p \in Procs : SaveRename(p)
    \/ \E p \in Procs : SaveFault(p)
    \/ \E p \in Procs : GetCommand(p)

SpecSeq == Init /\ [][NextSeq]_vars

(* ---------------------------- save, then load -------------------------- *)
RTShortcuts == {<<"CommandOrControl", "+", "Shift", "+", "Space">>, <<"T">>}
RTCustomEntries ==
    {[k |-> "settings", v |-> <<"CommandOrControl", "+", ",">>],
     [k |-> "settings", v |-> <<"F1">>],
     [k |-> "quit", v |-> <<"Alt", "+", "Q">>]}
\* a HashMap has one value for a key
RTCustoms ==
    {c \in SUBSET RTCustomEntries : \A x, y \in c : x.k = y.k => x = y}
RTConfigs ==
    {NoConfig, SomeConfig(<<"gpt-4">>, 70, 1000), SomeConfig(<<>>, 100, 0)}

RTSettings ==
    {[preferences |->
         [window_width |-> w, window_height |-> 300, theme |-> t, startup_behavior |-> b,
          keyboard_shortcuts |->
             [toggle_window |-> k,
              clear_conversation |-> <<"CommandOrControl", "+", "L">>,
              new_conversation |-> <<"CommandOrControl", "+", "N">>,
              custom_shortcuts |-> c]],
      ai_providers |-> [openai |-> o, anthropic |-> a]] :
        w \in {0, 400}, t \in Theme, b \in StartupBehavior, k \in RTShortcuts,
        c \in RTCustoms, o \in RTConfigs, a \in RTConfigs}

\* one update_settings of any value, alone, and the process restarts at any moment
NextRT ==
    \/ Load
    \/ Crash
    \/ \E s \in RTSettings : calls = 0 /\ UpdateCommand(1, s)
    \/ \E s \in RTSettings : calls = 0 /\ UpdateCommandOld(1, s)
    \/ SaveLock(1)
    \/ SaveOpen(1)
    \/ SaveWrite(1)
    \/ SaveRename(1)

SpecRT == Init /\ [][NextRT]_vars

(* ---------------------------- a settings file is there at the start ---- *)
LoadValues == Candidates \cup {Settings_default, WithWidth(CandB, 100)}
FullTexts == UNION {Serializations(s) : s \in LoadValues}

\* what new() can find: nothing, a file save has written, and what is left of one:
\* cut short, lines of two files mixed, a hole, a value of the wrong type
LoadTexts ==
    FullTexts
    \cup UNION {{SubSeq(t, 1, n) : n \in 0..Len(t)} : t \in FullTexts}
    \cup UNION {{WriteAt(t, n, SubSeq(u, n + 1, Len(u))) : n \in 0..Len(u)} :
                   t \in FullTexts, u \in FullTexts}
    \cup {WriteAt(<<>>, ShortWrite, SubSeq(t, ShortWrite + 1, Len(t))) : t \in FullTexts}
    \cup {[t EXCEPT ![2] = Line("window_width", "", v)] :
              t \in FullTexts, v \in {JStr(<<"wide">>), JNum(-1), JNull}}
    \cup {[t EXCEPT ![4] = Line("theme", "", JStr(<<"blue">>))] : t \in FullTexts}

InitLoad ==
    /\ InitProcess
    /\ \E file \in {Absent} \cup {[present |-> TRUE, text |-> t] : t \in LoadTexts} :
          /\ dir = [p \in Paths |-> IF p = SettingsPath /\ file.present THEN 1 ELSE 0]
          /\ inode = [i \in InodeIds |-> IF i = 1 THEN file.text ELSE <<>>]

NextLoad ==
    \/ Load
    \/ LoadJsonError
    \/ \E kind \in {"Io", "ConfigDirNotFound"} : LoadFault(kind)
    \/ Crash
    \/ \E p \in Procs : GetCommand(p)

SpecLoad == InitLoad /\ [][NextLoad]_vars

(* ---------------------------- validate, on any value ------------------- *)
ValConfigs == {NoConfig} \cup {SomeConfig(<<"gpt-4">>, t, 1000) : t \in {-1, 0, 100, 101}}
ValShortcuts == {<<"CommandOrControl", "+", "Shift", "+", "Space">>, <<"T">>, <<"Shift", "+", "T">>,
                 <<"Alt", "+", "T">>}
ValCustomEntries ==
    {[k |-> "settings", v |-> <<"CommandOrControl", "+", ",">>],
     [k |-> "help", v |-> <<"F1">>],
     [k |-> "quit", v |-> <<"Q">>]}

ValSettings ==
    {[preferences |->
         [window_width |-> w, window_height |-> h, theme |-> "System",
          startup_behavior |-> "Normal",
          keyboard_shortcuts |->
             [toggle_window |-> k,
              clear_conversation |-> <<"CommandOrControl", "+", "L">>,
              new_conversation |-> n,
              custom_shortcuts |-> c]],
      ai_providers |-> [openai |-> o, anthropic |-> a]] :
        w \in {399, 400}, h \in {299, 300}, k \in ValShortcuts,
        n \in {<<"CommandOrControl", "+", "N">>, <<"N">>},
        c \in SUBSET ValCustomEntries, o \in ValConfigs, a \in ValConfigs}

\* the first command of a run is an update_settings of any value
NextVal ==
    \/ Load
    \/ \E s \in ValSettings : calls = 0 /\ UpdateCommand(1, s)

SpecVal == Init /\ [][NextVal]_vars

(* ---------------------------- settings and credentials ----------------- *)
\* the commands of both kinds, one update_settings at a time
NextVault ==
    \/ Load
    \/ Crash
    \/ \E p \in Procs : NoUpdateInFlight /\ UpdateCommand(p, CandA)
    \/ \E p \in Procs : SaveLock(p)
    \/ \E p \in Procs : SaveOpen(p)
    \/ \E p \in Procs : SaveWrite(p)
    \/ \E p \in Procs : SaveRename(p)
    \/ \E p \in Procs : GetCommand(p)
    \/ \E p \in Procs, provider \in Accounts, key \in Passwords : StoreKeyCommand(p, provider, key)
    \/ \E p \in Procs, provider \in Accounts : GetKeyCommand(p, provider)
    \/ \E p \in Procs, provider \in Accounts : DeleteKeyCommand(p, provider)
    \/ \E p \in Procs, provider \in Accounts, key \in Passwords : StoreKeyCommandOld(p, provider, key)
    \/ \E p \in Procs, provider \in Accounts : GetKeyCommandOld(p, provider)
    \/ \E p \in Procs, provider \in Accounts : DeleteKeyCommandOld(p, provider)

SpecVault == Init /\ [][NextVault]_vars

(* ---------------------------- concurrent commands, no faults ----------- *)
\* the commands run at once; the file operations return without error and the
\* process does not crash
NextConc ==
    \/ Load
    \/ \E p \in Procs, s \in {CandA, CandB} : UpdateCommand(p, s)
    \/ \E p \in Procs : WriteGranted(p)
    \/ \E p \in Procs : SaveLock(p)
    \/ \E p \in Procs : ReadGranted(p)
    \/ \E p \in Procs : SaveOpen(p)
    \/ \E p \in Procs : SaveWrite(p)
    \/ \E p \in Procs : SaveRename(p)
    \/ \E p \in Procs : GetCommand(p)
    \/ \E p \in Procs : GetGranted(p)

SpecConc == Init /\ [][NextConc]_vars

(* ---------------------------- fair scheduling -------------------------- *)
\* the value does not matter for who waits for whom: one candidate
NextLive ==
    \/ Load
    \/ \E p \in Procs : UpdateCommand(p, CandA)
    \/ \E p \in Procs : WriteGranted(p)
    \/ \E p \in Procs : SaveLock(p)
    \/ \E p \in Procs : ReadGranted(p)
    \/ \E p \in Procs : SaveOpen(p)
    \/ \E p \in Procs : SaveWrite(p)
    \/ \E p \in Procs : SaveRename(p)
    \/ \E p \in Procs : GetCommand(p)
    \/ \E p \in Procs : GetGranted(p)

\* the tokio runtime polls every task that can go on, the RwLock grants in the order
\* of the requests, and every file operation returns
Fairness ==
    \A p \in Procs :
        /\ WF_vars(WriteGranted(p))
        /\ WF_vars(SaveLock(p))
        /\ WF_vars(ReadGranted(p))
        /\ WF_vars(SaveOpen(p))
        /\ WF_vars(SaveWrite(p))
        /\ WF_vars(SaveRename(p))
        /\ WF_vars(GetGranted(p))

SpecLive == Init /\ [][NextLive]_vars /\ Fairness

(* ---------------------------- any settings file, then the facade ------- *)
\* new() on whatever file is there, then the commands of commands/settings.rs, one
\* update_settings at a time
NextFacade ==
    \/ Load
    \/ LoadJsonError
    \/ \E p \in Procs, s \in {CandA, CandBad} : NoUpdateInFlight /\ UpdateCommand(p, s)
    \/ \E p \in Procs : SaveLock(p)
    \/ \E p \in Procs : SaveOpen(p)
    \/ \E p \in Procs : SaveWrite(p)
    \/ \E p \in Procs : SaveRename(p)
    \/ \E p \in Procs : GetCommand(p)

SpecFacade == InitLoad /\ [][NextFacade]_vars

(* ---------------------------- properties -------------------------------- *)
TmpFile == FileOf(dir, inode, "settings.tmp")
Values == Candidates \cup {Settings_default}

\* C1: the settings file is absent or the complete serialization of one Settings
\* value the memory has held (every such value is a candidate or the default); it is
\* never empty, truncated, partially written or mixed.
C1_FileNeverTorn ==
    Canon.present => \E s \in Values : IsSerializationOf(Canon, s)

\* C2: persistence is serialized: at most one save is in its file steps, and between
\* an update_settings' replacement and the end of its rename the memory holds the
\* value it put there (no other update_settings replaces it).
C2_SavesSerialized ==
    /\ Cardinality({p \in Procs : InFileSteps(p)}) <= 1
    /\ \A p \in Procs : up /\ AfterReplace(p) => mem = arg[p]

\* C3: no update is lost: when update_settings returns Ok, the settings file has
\* held exactly the value it was called with, at some moment since its replacement.
C3_NoLostUpdate ==
    \A p \in Procs : pc[p] = "done" /\ rv[p] = "Ok" => seen[p]

\* C4: a save that runs alone leaves the settings file as it was before the save
\* until its rename, whenever the process is interrupted, and leaves the complete
\* new content once it has renamed.
C4_SingleSaveAtomic ==
    \A p \in Procs :
        solo[p] =>
            /\ InUpdate(p) => Canon = pre[p]
            /\ pc[p] = "done" /\ sres[p] = "Ok" => IsSerializationOf(Canon, arg[p])

\* C4 witness: the process was interrupted between the temp-file write and the
\* rename of a save that ran alone over an older settings file.
C4_Witness ==
    /\ ~up
    /\ \E p \in Procs :
          /\ solo[p] /\ pc[p] = "s_rename"
          /\ pre[p].present
          /\ TmpFile.present /\ TmpFile.text = content[p] /\ TmpFile # Canon

\* C5: an update_settings command with a candidate that fails validation returns
\* InvalidInput and never enters the store: memory and files are left alone.
C5_InvalidNeverStored ==
    \A p \in Procs :
        validate(arg[p]) # {VOk} =>
            /\ ~InUpdate(p)
            /\ pc[p] = "done" => rv[p] = "InvalidInput"

\* C6: when update_settings(B) has returned Ok, having run alone, and no
\* update_settings was invoked since, the memory is B and the settings file is
\* the serialization of B, whatever was stored before; and a get_settings that
\* reads at such a time returns that value.
C6_SequentialUpdates ==
    /\ hist.lastOk.set =>
          /\ mem = hist.lastOk.v
          /\ IsSerializationOf(Canon, hist.lastOk.v)
    /\ \A p \in Procs :
          pc[p] = "done" /\ rv[p] = "OkSettings" /\ gotLast[p].set => got[p] = gotLast[p]

\* C6 witness: A was stored, read back by a get_settings, and then replaced by a
\* different B.
C6_Witness ==
    /\ up
    /\ hist.lastOk.set /\ hist.prevOk.set /\ hist.prevRead
    /\ hist.lastOk.v = CandA /\ hist.prevOk.v = CandB

\* C7: when the save of update_settings(new) fails, update_settings returns the
\* error, and if no other update_settings ran meanwhile the memory is new (no
\* rollback) and the settings file is what it was before the call.
C7_FailedSaveKeepsNew ==
    \A p \in Procs :
        pc[p] = "done" /\ sres[p] = "Io" =>
            /\ rv[p] = "Io"
            /\ solo[p] => (mem = arg[p] /\ Canon = pre[p])

\* C7 witness: a save failed after an earlier update had been persisted; the memory
\* and the file differ.
C7_Witness ==
    \E p \in Procs :
        /\ up /\ pc[p] = "done" /\ sres[p] = "Io" /\ solo[p]
        /\ pre[p].present
        /\ ~IsSerializationOf(Canon, mem)

\* C8: a get_settings never waits while a save holds the lock in its file steps.
C8_GetNeverWaitsForIO ==
    \A p \in Procs :
        pc[p] = "g_wait" => ~\E q \in readers : InFileSteps(q)

\* C9: after an update_settings(s) that returned Ok, new() succeeds on the settings
\* file and the memory of the new store equals s.
C9_RoundTrip ==
    /\ hist.lastOk.set => LoadResult(Canon) = [ok |-> TRUE, value |-> hist.lastOk.v]
    /\ up /\ hist.loadedFrom.set => mem = hist.loadedFrom.v

\* C9 witness: a store loaded from the file of a value with both kinds of provider
\* configuration and two custom shortcuts.
C9_Witness ==
    /\ up /\ crashes = 1
    /\ hist.loadedFrom.set
    /\ Cardinality(mem.preferences.keyboard_shortcuts.custom_shortcuts) = 2
    /\ mem.ai_providers.openai.some /\ ~mem.ai_providers.anthropic.some
    /\ mem.preferences.theme = "Dark"

\* C10: a store that new() built without a settings file holds the defaults until
\* an update_settings replaces them, and the settings file stays absent until a
\* save renames its temp file.
C10_LoadAbsentDefaults ==
    hist.bootAbsent =>
        /\ ~hist.renamed => ~Canon.present
        /\ up /\ ~hist.replaced =>
              /\ mem.preferences.window_width = 800
              /\ mem.preferences.window_height = 600
              /\ mem.preferences.theme = "System"
              /\ mem.preferences.startup_behavior = "Normal"
              /\ mem.preferences.keyboard_shortcuts.toggle_window
                    = <<"CommandOrControl", "+", "Shift", "+", "Space">>
              /\ mem.preferences.keyboard_shortcuts.clear_conversation
                    = <<"CommandOrControl", "+", "L">>
              /\ mem.preferences.keyboard_shortcuts.new_conversation
                    = <<"CommandOrControl", "+", "N">>
              /\ mem.preferences.keyboard_shortcuts.custom_shortcuts
                    = {[k |-> "settings", v |-> <<"CommandOrControl", "+", ",">>]}
              /\ ~mem.ai_providers.openai.some /\ ~mem.ai_providers.anthropic.some

\* C10 witness: the process died in its first save, before the rename; the new
\* store found a temp file and no settings file, and a get_settings returned the
\* defaults.
C10_Witness ==
    /\ up /\ crashes = 1
    /\ hist.bootAbsent /\ ~hist.replaced /\ ~Canon.present
    /\ TmpFile.present
    /\ \E p \in Procs :
          /\ pc[p] = "done" /\ rv[p] = "OkSettings"
          /\ got[p].v.preferences.window_width = 800

\* C11: when new() finds a settings file that does not parse, it returns the
\* serialization error (unless a file system error comes first): no store is
\* constructed, the defaults are not taken instead, and the file stays as it is.
C11_CorruptFileFailsLoad ==
    [][~up /\ Canon.present /\ ~ParseOk(Canon.text) =>
          /\ ~up'
          /\ dir' = dir /\ inode' = inode
          /\ faults' = faults => loadErr' = "Json"]_vars

C11_Witness ==
    /\ ~up /\ loadErr = "Json" /\ faults = 0
    /\ Canon.present /\ ~ParseOk(Canon.text)
    /\ Canon.text # <<>>

NumericOk(s) ==
    /\ s.preferences.window_width >= 400
    /\ s.preferences.window_height >= 300
    /\ \A c \in {s.ai_providers.openai, s.ai_providers.anthropic} :
          c.some => 0 <= c.temperature /\ c.temperature <= 100

NumericRules ==
    {"window_width", "window_height", "openai_temperature", "anthropic_temperature"}

ShortcutsOf(s) ==
    LET ks == s.preferences.keyboard_shortcuts
    IN  {ks.toggle_window, ks.clear_conversation, ks.new_conversation}
        \cup {e.v : e \in ks.custom_shortcuts}

HasModifier(shortcut) ==
    \E i \in 1..Len(shortcut) : shortcut[i] \in {"CommandOrControl", "Alt"}

ShortcutsOk(s) == \A shortcut \in ShortcutsOf(s) : HasModifier(shortcut)

\* the update_settings command of task 1 has validated its argument
Validated == pc[1] \in {"done", "save"}
RejectedBy(rules) == pc[1] = "done" /\ rv[1] = "InvalidInput" /\ out[1].rule \in rules

\* C12: validation passes the numeric rules exactly when window_width >= 400,
\* window_height >= 300 and every configured provider has 0.0 <= temperature <= 1.0;
\* a value that breaks one is rejected, a value that keeps them all is not rejected
\* by a numeric rule, and is accepted if its shortcuts are in order.
C12_NumericBounds ==
    Validated =>
        /\ ~NumericOk(arg[1]) => RejectedBy(NumericRules \cup {"shortcut"})
        /\ NumericOk(arg[1]) => ~RejectedBy(NumericRules)
        /\ NumericOk(arg[1]) /\ ShortcutsOk(arg[1]) => pc[1] = "save"

C12_Witness ==
    /\ pc[1] = "save"
    /\ arg[1].preferences.window_width = 400
    /\ arg[1].preferences.window_height = 300
    /\ arg[1].ai_providers.openai.some /\ arg[1].ai_providers.openai.temperature = 100
    /\ arg[1].ai_providers.anthropic.some /\ arg[1].ai_providers.anthropic.temperature = 0

\* C13: a value is rejected if one of its shortcut strings (toggle_window,
\* clear_conversation, new_conversation, every custom_shortcuts entry) holds no
\* recognized modifier; a shortcut error names such a string, and none is reported
\* when every shortcut holds a modifier.
C13_ShortcutModifier ==
    Validated =>
        /\ ~ShortcutsOk(arg[1]) => RejectedBy(NumericRules \cup {"shortcut"})
        /\ ShortcutsOk(arg[1]) => ~RejectedBy({"shortcut"})
        /\ RejectedBy({"shortcut"}) =>
              out[1].detail \in ShortcutsOf(arg[1]) /\ ~HasModifier(out[1].detail)
        /\ ~ShortcutsOk(arg[1]) /\ NumericOk(arg[1]) => RejectedBy({"shortcut"})

C13_Witness ==
    /\ RejectedBy({"shortcut"})
    /\ out[1].detail = <<"F1">>
    /\ HasModifier(arg[1].preferences.keyboard_shortcuts.toggle_window)
    /\ HasModifier(arg[1].preferences.keyboard_shortcuts.new_conversation)
    /\ NumericOk(arg[1])

Violated(s) ==
    {r \in {"window_width"} : s.preferences.window_width < 400}
    \cup {r \in {"window_height"} : s.preferences.window_height < 300}
    \cup {r \in {"openai_temperature"} :
             s.ai_providers.openai.some /\ ~(0 <= s.ai_providers.openai.temperature
                                             /\ s.ai_providers.openai.temperature <= 100)}
    \cup {r \in {"anthropic_temperature"} :
             s.ai_providers.anthropic.some /\ ~(0 <= s.ai_providers.anthropic.temperature
                                                /\ s.ai_providers.anthropic.temperature <= 100)}
    \cup {r \in {"shortcut"} : ~ShortcutsOk(s)}

\* the first rule of the sequence rules that s violates
FirstViolated(rules, s) ==
    rules[CHOOSE i \in 1..Len(rules) :
             rules[i] \in Violated(s) /\ \A j \in 1..(i - 1) : rules[j] \notin Violated(s)]

NestingOrder ==
    <<"window_width", "window_height", "shortcut", "openai_temperature",
      "anthropic_temperature">>

\* the first of the three fixed shortcuts without a modifier, or, if they all have
\* one, any custom entry without
FirstBadShortcuts(s) ==
    LET ks == s.preferences.keyboard_shortcuts
        fixed == <<ks.toggle_window, ks.clear_conversation, ks.new_conversation>>
        bad == {i \in 1..3 : ~HasModifier(fixed[i])}
    IN  IF bad # {} THEN {fixed[CHOOSE i \in bad : \A j \in bad : i <= j]}
        ELSE {e.v : e \in {x \in ks.custom_shortcuts : ~HasModifier(x.v)}}

\* C17 as stated: of several violated rules the one reported is the first in the
\* order window width, window height, provider temperature (openai before
\* anthropic), shortcut strings.
C17_ListedOrder ==
    RejectedBy(NumericRules \cup {"shortcut"}) =>
        out[1].rule = FirstViolated(<<"window_width", "window_height", "openai_temperature",
                                      "anthropic_temperature", "shortcut">>, arg[1])

\* C17, amended: exactly one error is reported, the first violated rule in the order
\* window width, window height, shortcut strings (toggle_window, clear_conversation,
\* new_conversation, then the custom entries in iteration order), provider
\* temperature (openai before anthropic).
C17_NestingOrder ==
    /\ Validated /\ Violated(arg[1]) # {} => RejectedBy(NumericRules \cup {"shortcut"})
    /\ RejectedBy(NumericRules \cup {"shortcut"}) =>
          /\ out[1].rule = FirstViolated(NestingOrder, arg[1])
          /\ out[1].rule = "shortcut" => out[1].detail \in FirstBadShortcuts(arg[1])
          /\ out[1].rule # "shortcut" => out[1].detail = <<>>

C17_Witness ==
    /\ RejectedBy({"shortcut"})
    /\ arg[1].ai_providers.openai.some /\ arg[1].ai_providers.openai.temperature = 101
    /\ out[1].detail = <<"Q">>
    /\ <<"F1">> \in ShortcutsOf(arg[1])

\* a credential command ran in this step
CredentialStep == hist'.cred.n # hist.cred.n
SettingsState == <<up, loadErr, mem, dir, inode, readers, queue, writer, content, fd, off>>

\* C14: a credential command called with a provider outside {openai, anthropic}
\* returns InvalidInput and makes no call of the secret store, whose entries stay as
\* they are.
C14_UnknownProviderRejected ==
    [][CredentialStep /\ hist'.cred.provider \notin Providers =>
          /\ rv'[hist'.cred.task] = "InvalidInput"
          /\ vault' = vault
          /\ hist'.vcalls = hist.vcalls]_vars

\* C15: get_api_key and delete_api_key of commands/settings.rs, for an allowed
\* provider without a stored key and a secret store that answers, return the error
\* kind NotFound.
C15_MissingIsNotFound ==
    [][/\ CredentialStep
       /\ hist'.cred.handler = "commands/settings.rs"
       /\ hist'.cred.op \in {"get", "delete"}
       /\ hist'.cred.provider \in Providers
       /\ vault[hist'.cred.provider] = NoPassword
       /\ faults' = faults
       => rv'[hist'.cred.task] = "NotFound"]_vars

\* C16: a credential command leaves the store's value, its lock, the settings file
\* and the temp file as they are, and no other step (new, get_settings,
\* update_settings, save, a crash) calls the secret store or changes an entry of it.
C16_PathsIndependent ==
    [][/\ CredentialStep => UNCHANGED SettingsState
       /\ ~CredentialStep => vault' = vault /\ hist'.vcalls = hist.vcalls]_vars

C16_Witness ==
    /\ up /\ hist.vcalls > 0 /\ faults > 0
    /\ vault["openai"] = "sk-2"
    /\ \E p \in Procs : pc[p] = "done" /\ rv[p] = "Ok"
    /\ IsSerializationOf(Canon, CandA) /\ mem = CandA

\* C18: with no file system fault and no crash, every update_settings returns
\* success, also when several run at once: none fails by what another one does to
\* the temp file.
C18_ConcurrentUpdatesSucceed ==
    faults = 0 /\ crashes = 0 =>
        \A p \in Procs : pc[p] = "done" => rv[p] # "Io" /\ sres[p] # "Io"

\* C19: when no update_settings is in progress and none has returned an error since
\* new(), the settings file is absent or a serialization of the value in memory.
C19_QuiescentConsistency ==
    up /\ NoUpdateInFlight /\ ~hist.failed =>
        ~Canon.present \/ IsSerializationOf(Canon, mem)

C19_Witness ==
    /\ up /\ NoUpdateInFlight /\ ~hist.failed
    /\ IsSerializationOf(Canon, mem)
    /\ \E p, q \in Procs :
          /\ pc[p] = "done" /\ rv[p] = "Ok" /\ ~solo[p]
          /\ pc[q] = "done" /\ rv[q] = "Ok" /\ ~solo[q]
          /\ arg[p] # arg[q]

\* C20: under fair scheduling and file operations that return, every get_settings
\* and every update_settings that was called returns, whatever the number of
\* concurrent callers; and no update_settings holds the write guard while it asks
\* or waits for the read lock of save.
C20_EveryCallReturns ==
    /\ \A p \in Procs : (pc[p] \notin {"idle", "done"}) ~> (pc[p] = "done")
    /\ [](\A p \in Procs : pc[p] \in {"save", "s_wait"} => writer # p)

C20_Witness ==
    \E p, q, r \in Procs :
        /\ InFileSteps(p) /\ p \in readers
        /\ pc[q] = "w_wait"
        /\ pc[r] = "g_wait"
        /\ queue = <<q, r>>

\* C21: the value of a running store satisfies every validation rule (width >= 400,
\* height >= 300, temperatures in [0, 1], a modifier in every shortcut), whether
\* new() took the defaults or a settings file that parses, and after any
\* update_settings commands of commands/settings.rs, accepted or rejected.
C21_MemoryValid ==
    up => NumericOk(mem) /\ ShortcutsOk(mem)
====
